---- MODULE Spec2Model ----
(***************************************************************************)
(* Model of the smart-factory dashboard (src/sw.js): the factory state     *)
(* store (machines, production lines, telemetry events) and the telemetry  *)
(* channel (WebSocket, reconnect timer, teardown), the service worker's    *)
(* cache epochs (install, activate, fetch) and the predictive-maintenance  *)
(* assessment.                                                             *)
(*                                                                         *)
(* JavaScript values are records tagged by their type: S("x") a string,    *)
(* N(3) a number, Undefined, Null; a decoded event is an object whose      *)
(* absent properties read as Undefined, as a property read in JavaScript   *)
(* does.  Numbers are integers: the model draws metrics from small sets.   *)
(***************************************************************************)
EXTENDS Integers, Sequences, FiniteSets, TLC

VARIABLES
    machines,         \* this.machines: machine id -> machine record
    productionLines,  \* this.productionLines: line id -> line record
    alerts,           \* messages surfaced by showAlert, oldest first
    lastData,         \* argument of the latest handleRealtimeData call
    threw,            \* whether the latest handleRealtimeData call threw
    before,           \* the store as it was when that call began
    repeated,         \* that call had the same argument as the one before it
    calcIn,           \* argument of a calculateLineStatus call
    calcOut,          \* its result
    lineOut,          \* what a createProductionLine call stored for calcIn
    sockets,          \* WebSocket objects whose close event has not fired yet
    socket,           \* this.socket: "null", "live" (last of sockets) or "closed"
    timers,           \* pending setTimeout reconnect timers: their delays
    disposed,         \* dispose() has been called
    openedAfterDispose, \* a WebSocket was constructed after dispose()
    received,         \* frames received on the channel, in order
    delivered,        \* values handed to handleRealtimeData, in order
    uncaught,         \* an exception escaped an event callback
    pendingRetry,     \* a close, error or failed creation since the last attempt began
    attemptTick,      \* flips at every call of setupSocketConnection
    lastEvent,        \* the latest channel callback that ran
    swCaches,         \* CacheStorage: the caches of the origin, in creation order
    swNextId,         \* identity given to the next cache object created
    swActive,         \* CACHE_NAME of the active service worker
    swNew,            \* lifecycle state of the worker whose CACHE_NAME is line 1
    swFailed,         \* the latest install of that worker failed
    swToDelete,       \* caches.delete calls of the activate handler not yet resolved
    swReqs,           \* fetch events whose respondWith promise is pending
    swWrites,         \* open().then(put) chains of lines 76-79 that have not finished
    swLast,           \* outcome of the fetch handler that finished last
    swHits,           \* caches that served hits since the last completed activation
    swOverwritten,    \* a cache.put replaced an entry its cache already held
    swUnhandled,      \* a promise of the worker rejected with no handler
    pmIn,             \* arguments of a calculatePredictiveMaintenance call
    pmOut,            \* its result
    selectedMachine,  \* this.selectedMachine
    recIn,            \* arguments of a getMaintenanceRecommendation call
    recOut            \* its result

storeVars == <<machines, productionLines, alerts, lastData, threw, before, repeated>>
calcVars == <<calcIn, calcOut, lineOut>>
chanVars == <<sockets, socket, timers, disposed, openedAfterDispose, received,
              delivered, uncaught, pendingRetry, attemptTick, lastEvent>>
swVars == <<swCaches, swNextId, swActive, swNew, swFailed, swToDelete, swReqs,
            swWrites, swLast, swHits, swUnhandled, swOverwritten>>
pmVars == <<pmIn, pmOut, recIn, recOut, selectedMachine>>
vars == <<machines, productionLines, alerts, lastData, threw, before, repeated,
          calcIn, calcOut, lineOut, sockets, socket, timers, disposed, openedAfterDispose,
          received, delivered, uncaught, pendingRetry, attemptTick, lastEvent,
          swCaches, swNextId, swActive, swNew, swFailed, swToDelete, swReqs,
          swWrites, swLast, swHits, swUnhandled, swOverwritten, pmIn, pmOut,
          recIn, recOut, selectedMachine>>

----------------------------------------------------------------------------
(* Bounds of the model *)

MaxMembers == 4
MaxAlerts == 1
MaxFrames == 3
MaxInflight == 2
MaxWrites == 2

----------------------------------------------------------------------------
(* JavaScript values *)

Undefined == [t |-> "undefined"]
Null == [t |-> "null"]
S(s) == [t |-> "string", s |-> s]
N(n) == [t |-> "number", n |-> n]

\* ToBoolean on the values the model uses
Truthy(v) ==
    CASE v.t = "undefined" -> FALSE
      [] v.t = "null" -> FALSE
      [] v.t = "number" -> v.n # 0
      [] v.t = "string" -> v.s # ""
      [] OTHER -> TRUE

\* a || b
Or(a, b) == IF Truthy(a) THEN a ELSE b

\* property key of a value used in obj[value]
ToKey(v) ==
    CASE v.t = "string" -> v.s
      [] v.t = "undefined" -> "undefined"
      [] v.t = "null" -> "null"
      [] OTHER -> "object"

\* a decoded telemetry object; a property the frame does not carry reads Undefined
Event(type, machineId, status, temperature, vibration, efficiency, message) ==
    [t |-> "object", type |-> type, machineId |-> machineId, status |-> status,
     temperature |-> temperature, vibration |-> vibration,
     efficiency |-> efficiency, message |-> message]

MachineStatusEvent(id, status, temperature, vibration, efficiency) ==
    Event(S("machineStatus"), S(id), S(status), temperature, vibration,
          efficiency, Undefined)

AlertEvent(message) ==
    Event(S("alert"), Undefined, Undefined, Undefined, Undefined, Undefined,
          S(message))

OtherEvent(type) ==
    Event(S(type), Undefined, Undefined, Undefined, Undefined, Undefined,
          Undefined)

----------------------------------------------------------------------------
(* The factory layout *)

Config(id, status) == [id |-> id, status |-> S(status)]

LineIds == {"A", "B", "C"}

LineConfigs ==
    [A |-> <<Config("MACHINE_A1", "running"), Config("MACHINE_A2", "running"),
             Config("MACHINE_A3", "maintenance"), Config("MACHINE_A4", "stopped")>>,
     B |-> <<Config("MACHINE_B1", "running"), Config("MACHINE_B2", "offline"),
             Config("MACHINE_B3", "stopped"), Config("MACHINE_B4", "stopped")>>,
     C |-> <<Config("MACHINE_C1", "running"), Config("MACHINE_C2", "running"),
             Config("MACHINE_C3", "running"), Config("MACHINE_C4", "running")>>]

MachineIds ==
    UNION {{LineConfigs[l][i].id : i \in 1..Len(LineConfigs[l])} : l \in LineIds}

\* Property names every object literal inherits from Object.prototype; the
\* model needs one of them.
InheritedKeys == {"constructor"}

\* Math.random() in tenths, one draw per metric of createMachine and one for
\* the date of its last maintenance
Seeds == {<<2, 3, 5, 4>>, <<8, 7, 1, 9>>}

----------------------------------------------------------------------------
(* calculateLineStatus *)

Includes(seq, x) == \E i \in 1..Len(seq) : seq[i] = x

\* statuses.every(s => s === 'running')
EveryRunning(seq) == \A i \in 1..Len(seq) : seq[i] = S("running")

calculateLineStatusNoMaintenance(machinesConfig) ==
    LET statuses == [i \in 1..Len(machinesConfig) |-> machinesConfig[i].status]
    IN  IF Includes(statuses, S("offline"))
        THEN S("stopped")
        ELSE IF EveryRunning(statuses) THEN S("running") ELSE S("warning")

calculateLineStatus(machinesConfig) ==
    LET statuses == [i \in 1..Len(machinesConfig) |-> machinesConfig[i].status]
    IN  IF Includes(statuses, S("offline")) \/ Includes(statuses, S("maintenance"))
        THEN S("stopped")
        ELSE IF EveryRunning(statuses) THEN S("running") ELSE S("warning")

----------------------------------------------------------------------------
(* Construction of the store *)

createMachine(id, status, seed) ==
    [id |-> id, status |-> status,
     temperature |-> N(50 + 5 * seed[1]),
     vibration |-> N(seed[2]),
     efficiency |-> N(70 + 3 * seed[3]),
     lastMaintenance |-> N(0 - 3 * seed[4])]

\* lines 462-503, with every member stored under its configured status
createProductionLineKeepsStatus(lineId, machinesConfig, seed) ==
    LET lineStatus == calculateLineStatus(machinesConfig)
    IN  [created |-> [i \in 1..Len(machinesConfig) |->
                        createMachine(machinesConfig[i].id,
                                      machinesConfig[i].status, seed)],
         line |-> [id |-> lineId, status |-> lineStatus,
                   machines |-> [i \in 1..Len(machinesConfig) |->
                                   machinesConfig[i].id]]]

\* lines 462-503, with the last member left out of the line's member list
createProductionLineDropsMember(lineId, machinesConfig, seed) ==
    LET lineStatus == calculateLineStatus(machinesConfig)
        machineStatus(config) ==
            IF lineStatus = S("stopped") THEN S("stopped") ELSE config.status
    IN  [created |-> [i \in 1..Len(machinesConfig) |->
                        createMachine(machinesConfig[i].id,
                                      machineStatus(machinesConfig[i]), seed)],
         line |-> [id |-> lineId, status |-> lineStatus,
                   machines |-> [i \in 1..(Len(machinesConfig) - 1) |->
                                   machinesConfig[i].id]]]

\* the machines createProductionLine stores, and the line record
createProductionLine(lineId, machinesConfig, seed) ==
    LET lineStatus == calculateLineStatus(machinesConfig)
        machineStatus(config) ==
            IF lineStatus = S("stopped") THEN S("stopped") ELSE config.status
    IN  [created |-> [i \in 1..Len(machinesConfig) |->
                        createMachine(machinesConfig[i].id,
                                      machineStatus(machinesConfig[i]), seed)],
         line |-> [id |-> lineId, status |-> lineStatus,
                   machines |-> [i \in 1..Len(machinesConfig) |->
                                   machinesConfig[i].id]]]

createDemoLayout(seed) ==
    LET built == [l \in LineIds |-> createProductionLine(l, LineConfigs[l], seed)]
        owner(id) == CHOOSE l \in LineIds :
                        \E i \in 1..Len(LineConfigs[l]) : LineConfigs[l][i].id = id
        slot(id) == CHOOSE i \in 1..Len(LineConfigs[owner(id)]) :
                        LineConfigs[owner(id)][i].id = id
    IN  [machines |-> [id \in MachineIds |-> built[owner(id)].created[slot(id)]],
         productionLines |-> [l \in LineIds |-> built[l].line]]

----------------------------------------------------------------------------
(* handleRealtimeData *)

\* this.machines[key]: an own property, or one inherited from Object.prototype
Lookup(ms, key) ==
    IF key \in DOMAIN ms THEN [t |-> "object", kind |-> "machine"]
    ELSE IF key \in InheritedKeys THEN [t |-> "object", kind |-> "inherited"]
    ELSE Undefined

\* machine.f = data.f + machine.f
UpdateMetricAccumulates(new, old) ==
    IF Truthy(new) THEN N(new.n + old.n) ELSE old

\* machine.f = data.f || machine.f
UpdateMetric(new, old) == Or(new, old)

\* a showAlert that surfaces nothing
showAlertSilent(al, message) == al

\* showAlert(message): the page's showAlert, or console.warn
showAlert(al, message) == Append(al, message)

\* The store after handleRealtimeData(data), and whether the call threw.
\* Reading data.type of null or undefined throws.  For a machineId that names
\* an inherited property the looked-up object is truthy but no machine:
\* the assignments land on it, and updateMachineVisualStatus throws on its
\* missing statusLight before the alert branch is reached.
handleRealtimeData(ms, al, data) ==
    IF data.t # "object"
    THEN [machines |-> ms, alerts |-> al, threw |-> TRUE]
    ELSE
    LET key == ToKey(data.machineId)
        found == Lookup(ms, key)
        isStatus == data.type = S("machineStatus") /\ Truthy(found)
        updated == [ms EXCEPT ![key] =
                      [@ EXCEPT !.status = data.status,
                                !.temperature = UpdateMetric(data.temperature, @),
                                !.vibration = UpdateMetric(data.vibration, @),
                                !.efficiency = UpdateMetric(data.efficiency, @)]]
    IN  IF isStatus /\ found.kind = "inherited"
        THEN [machines |-> ms, alerts |-> al, threw |-> TRUE]
        ELSE [machines |-> IF isStatus THEN updated ELSE ms,
              alerts |-> IF data.type = S("alert")
                         THEN showAlert(al, data.message) ELSE al,
              threw |-> FALSE]

----------------------------------------------------------------------------
(* Telemetry events the store is driven with *)

NoData == [t |-> "none"]

KnownEventIds == {"MACHINE_C1"}

\* ids no machine of the store has: a plain one and an inherited property name
UnknownEventIds == {"MACHINE_X9", "constructor"}

EventStatuses == {"running", "maintenance", "offline", "stopped"}

TempVals == {Undefined, N(0), N(85)}

VibVals == {Undefined, N(6)}

EffVals == {Undefined, N(90)}

StatusEvents ==
    {MachineStatusEvent(id, s, t, v, e) :
        id \in KnownEventIds, s \in EventStatuses,
        t \in TempVals, v \in VibVals, e \in EffVals}
    \cup
    {MachineStatusEvent(id, s, t, Undefined, Undefined) :
        id \in UnknownEventIds, s \in {"running", "offline"},
        t \in {Undefined, N(85)}}

Events == StatusEvents \cup {AlertEvent("overheat"), OtherEvent("heartbeat")}

Snapshot == [machines |-> machines, productionLines |-> productionLines,
             alerts |-> alerts]

\* what one call of handleRealtimeData(data) does to the store
Apply(data) ==
    LET r == handleRealtimeData(machines, alerts, data)
    IN  /\ Len(r.alerts) <= MaxAlerts
        /\ machines' = r.machines
        /\ alerts' = r.alerts
        /\ threw' = r.threw
        /\ lastData' = data
        /\ before' = Snapshot
        /\ repeated' = (data = lastData)
        /\ UNCHANGED productionLines

\* a caller applies one event
HandleRealtimeData ==
    /\ \E data \in Events : Apply(data)
    /\ UNCHANGED <<calcVars, chanVars, swVars, pmVars>>

----------------------------------------------------------------------------
(* calculateLineStatus as an operation *)

StatusSeqs == UNION {[1..n -> EventStatuses] : n \in 0..MaxMembers}

ConfigsOf(prefix, statuses) ==
    [i \in 1..Len(statuses) |-> Config(prefix, statuses[i])]

CalcInputs == {ConfigsOf(p, s) : p \in {"X", "Y"}, s \in StatusSeqs}

NoResult == [t |-> "none"]

CalculateLineStatus ==
    /\ calcOut = NoResult
    /\ calcOut' = calculateLineStatus(calcIn)
    /\ UNCHANGED <<calcIn, lineOut, storeVars, chanVars, swVars, pmVars>>

\* createProductionLine(lineId, ..., machinesConfig, ...) for a configured line
CreateProductionLine ==
    /\ lineOut = NoResult
    /\ \E seed \in Seeds : lineOut' = createProductionLine("X", calcIn, seed)
    /\ UNCHANGED <<calcIn, calcOut, storeVars, chanVars, swVars, pmVars>>

----------------------------------------------------------------------------
(* The telemetry channel *)

RECONNECT_DELAY == 5000

\* A frame is text: either the JSON encoding of a value or not JSON at all.
Malformed == [kind |-> "malformed"]

Json(v) == [kind |-> "json", value |-> v]

\* JSON.parse(event.data): the value, or a SyntaxError
JSONparse(frame) ==
    IF frame.kind = "json" THEN [ok |-> TRUE, value |-> frame.value]
    ELSE [ok |-> FALSE]

ChanFrames ==
    {Malformed, Json(Null), Json(AlertEvent("overheat")),
     Json(OtherEvent("heartbeat")),
     Json(MachineStatusEvent("MACHINE_C1", "offline", N(85), Undefined, Undefined)),
     Json(MachineStatusEvent("MACHINE_X9", "offline", N(85), Undefined, Undefined))}

NewSocket == [readyState |-> "CONNECTING", errored |-> FALSE]

Remove(seq, i) == [j \in 1..(Len(seq) - 1) |-> IF j < i THEN seq[j] ELSE seq[j + 1]]

\* setupSocketConnection(): new WebSocket(...) either returns a socket, which
\* is stored in this.socket, or throws; the catch only logs.
setupSocketConnection(created) ==
    /\ attemptTick' = ~attemptTick
    /\ IF created
       THEN /\ sockets' = Append(sockets, NewSocket)
            /\ socket' = "live"
            /\ pendingRetry' = FALSE
            /\ openedAfterDispose' = (openedAfterDispose \/ disposed)
       ELSE /\ pendingRetry' = TRUE
            /\ UNCHANGED <<sockets, socket, openedAfterDispose>>

\* socket.onopen: logs
onopen == UNCHANGED <<timers, pendingRetry>>

\* a handler that lets the SyntaxError of JSON.parse escape
onmessageNoCatch(frame) ==
    LET parsed == JSONparse(frame)
    IN  IF parsed.ok
        THEN /\ Apply(parsed.value)
             /\ delivered' = Append(delivered, parsed.value)
             /\ UNCHANGED uncaught
        ELSE /\ uncaught' = TRUE
             /\ UNCHANGED <<storeVars, delivered>>

\* a handler that skips a frame equal to the one received just before it
onmessageDedup(frame) ==
    LET parsed == JSONparse(frame)
    IN  IF parsed.ok /\ ~(received # <<>> /\ received[Len(received)] = frame)
        THEN /\ Apply(parsed.value)
             /\ delivered' = Append(delivered, parsed.value)
             /\ UNCHANGED uncaught
        ELSE UNCHANGED <<storeVars, delivered, uncaught>>

\* socket.onmessage: try { handleRealtimeData(JSON.parse(event.data)) }
\* catch { console.warn }: whatever is thrown inside is caught
onmessage(frame) ==
    LET parsed == JSONparse(frame)
    IN  IF parsed.ok
        THEN /\ Apply(parsed.value)
             /\ delivered' = Append(delivered, parsed.value)
             /\ UNCHANGED uncaught
        ELSE UNCHANGED <<storeVars, delivered, uncaught>>

\* socket.onclose: logs and schedules one reconnect
onclose ==
    /\ timers' = Append(timers, RECONNECT_DELAY)
    /\ pendingRetry' = TRUE

\* a handler that schedules a reconnect on error as well
onerrorReconnects ==
    /\ timers' = Append(timers, RECONNECT_DELAY)
    /\ pendingRetry' = TRUE

\* socket.onerror: logs
onerror ==
    /\ timers' = timers
    /\ pendingRetry' = TRUE

\* the connection of socket i is established
SocketOpen(i) ==
    /\ sockets[i].readyState = "CONNECTING"
    /\ sockets' = [sockets EXCEPT ![i].readyState = "OPEN"]
    /\ onopen
    /\ lastEvent' = "open"
    /\ UNCHANGED <<socket, disposed, openedAfterDispose, received, delivered,
                   uncaught, attemptTick, storeVars, calcVars, swVars, pmVars>>

\* a frame arrives on the open socket i
SocketMessage(i, frame) ==
    /\ sockets[i].readyState = "OPEN"
    /\ Len(received) < MaxFrames
    /\ received' = Append(received, frame)
    /\ onmessage(frame)
    /\ lastEvent' = "message"
    /\ UNCHANGED <<sockets, socket, timers, disposed, openedAfterDispose,
                   pendingRetry, attemptTick, calcVars, swVars, pmVars>>

\* the connection of socket i fails: the browser fires error, and close after it
SocketError(i) ==
    /\ sockets[i].readyState # "CLOSED"
    /\ sockets' = [sockets EXCEPT ![i] = [readyState |-> "CLOSED", errored |-> TRUE]]
    /\ onerror
    /\ lastEvent' = "error"
    /\ UNCHANGED <<socket, disposed, openedAfterDispose, received, delivered,
                   uncaught, attemptTick, storeVars, calcVars, swVars, pmVars>>

\* the close event of socket i: after an error, after close(), or because the
\* peer or the network ended an open connection
SocketClose(i) ==
    /\ sockets[i].readyState # "CONNECTING"
    /\ sockets' = Remove(sockets, i)
    /\ socket' = IF socket = "live" /\ i = Len(sockets) THEN "closed" ELSE socket
    /\ onclose
    /\ lastEvent' = IF sockets[i].errored THEN "closeAfterError" ELSE "close"
    /\ UNCHANGED <<disposed, openedAfterDispose, received, delivered, uncaught,
                   attemptTick, storeVars, calcVars, swVars, pmVars>>

\* a reconnect timer fires: () => this.setupSocketConnection()
TimerFire(i) ==
    /\ timers' = Remove(timers, i)
    /\ \E created \in BOOLEAN : setupSocketConnection(created)
    /\ lastEvent' = "timer"
    /\ UNCHANGED <<disposed, received, delivered, uncaught, storeVars, calcVars, swVars, pmVars>>

\* dispose(): if (this.socket) this.socket.close(); no timer is cleared
dispose ==
    /\ disposed' = TRUE
    /\ sockets' = IF socket = "live" /\ sockets[Len(sockets)].readyState \in {"CONNECTING", "OPEN"}
                  THEN [sockets EXCEPT ![Len(sockets)].readyState = "CLOSING"]
                  ELSE sockets
    /\ lastEvent' = "dispose"
    /\ UNCHANGED <<socket, timers, openedAfterDispose, received, delivered,
                   uncaught, pendingRetry, attemptTick, storeVars, calcVars, swVars, pmVars>>

----------------------------------------------------------------------------
(* Service worker: the cache epochs (src/sw.js lines 1-139)                *)
(*                                                                         *)
(* One epoch is one cache of CacheStorage, named by the CACHE_NAME of the  *)
(* worker version that filled it.  The worker of line 1 is installed on    *)
(* top of a prior epoch, whose worker runs the same handlers under its own *)
(* cache name.  A URL is a record, so that its scheme and origin can be    *)
(* read.                                                                   *)

CACHE_NAME == "smart-factory-v1.2"

\* the cache of the epoch that is active when the worker of line 1 arrives
PRIOR_CACHE_NAME == "smart-factory-v1.1"

Url(scheme, host, path) == [scheme |-> scheme, host |-> host, path |-> path]

\* a path resolved against the origin of the worker
Own(path) == Url("https", "self", path)

FontAwesome ==
    Url("https", "cdnjs.cloudflare.com", "/ajax/libs/font-awesome/6.0.0/css/all.min.css")

urlsToCache == <<Own("/"), Own("/index.html"), Own("/manifest.json"), FontAwesome>>

Manifest == {urlsToCache[i] : i \in 1..Len(urlsToCache)}

\* what the prior epoch holds: the manifest, with or without the external
\* stylesheet that line 6 adds to it
PriorManifests == {Manifest, Manifest \ {FontAwesome}}

SameOrigin(url) == url.host = "self"

Response(status, type) == [status |-> status, type |-> type]

NoResponse == [status |-> 0, type |-> "none"]

\* the Response built at lines 86-134
OfflinePage == Response(200, "default")

NetworkError == [status |-> 0, type |-> "error"]

\* what fetch(request) can resolve with; it rejects on NetworkError
NetResponses(url) ==
    IF SameOrigin(url) THEN {Response(200, "basic"), Response(404, "basic")}
    ELSE {Response(200, "cors")}

NetOutcomes(url) == NetResponses(url) \cup {NetworkError}

\* the response addAll stores for a manifest URL
ManifestResponse(url) ==
    IF SameOrigin(url) THEN Response(200, "basic") ELSE Response(200, "cors")

Request(method, url, destination) ==
    [method |-> method, url |-> url, destination |-> destination]

SwRequests ==
    {Request("GET", Own("/"), "document"),
     Request("GET", FontAwesome, "style"),
     Request("GET", Own("/report"), "document"),
     Request("POST", Own("/api/report"), "none"),
     Request("GET", Url("chrome-extension", "abc", "/inject.js"), "script")}

\* an entry of a cache: the stored response and the call that stored it
Entry(response, via) == [response |-> response, via |-> via]

NoEntries == [u \in {} |-> NoResponse]

NewCache(id, name) == [id |-> id, name |-> name, entries |-> NoEntries]

HasCache(cs, name) == \E i \in 1..Len(cs) : cs[i].name = name

CacheNamed(cs, name) == cs[CHOOSE i \in 1..Len(cs) : cs[i].name = name]

\* caches.open(name): the cache of that name, created when there is none
cachesOpen(cs, name, id) ==
    IF HasCache(cs, name) THEN cs ELSE Append(cs, NewCache(id, name))

cachesKeys(cs) == {cs[i].name : i \in 1..Len(cs)}

cachesDelete(cs, name) ==
    LET Kept(c) == c.name # name IN SelectSeq(cs, Kept)

\* caches.match(request): the first cache, in creation order, holding the URL
cachesMatch(cs, url) ==
    LET holders == {i \in 1..Len(cs) : url \in DOMAIN cs[i].entries}
        first == CHOOSE i \in holders : \A j \in holders : i <= j
    IN  IF holders = {} THEN [t |-> "miss"]
        ELSE [t |-> "hit", name |-> cs[first].name,
              response |-> cs[first].entries[url].response]

\* a put that leaves the cache with the new entry alone
PutEntryAlone(entries, url, entry) == [u \in {url} |-> entry]

PutEntry(entries, url, entry) ==
    [u \in DOMAIN entries \cup {url} |-> IF u = url THEN entry ELSE entries[u]]

\* cache.put on the cache object of identity id; a cache object that was
\* deleted from CacheStorage is no longer reachable by name
cachePut(cs, id, url, entry) ==
    [i \in 1..Len(cs) |->
        IF cs[i].id = id THEN [cs[i] EXCEPT !.entries = PutEntry(@, url, entry)]
        ELSE cs[i]]

\* cache.addAll(urls) once every response has arrived: all entries at once
cacheAddAll(cs, name, urls) ==
    [i \in 1..Len(cs) |->
        IF cs[i].name = name
        THEN [cs[i] EXCEPT !.entries =
                 [u \in DOMAIN @ \cup urls |->
                     IF u \in urls THEN Entry(ManifestResponse(u), "addAll")
                     ELSE @[u]]]
        ELSE cs[i]]

\* lines 13-23: skipWaiting only in the then-callback of a resolved addAll
InstallResultAlwaysSkipsWaiting(ok) == "installed"

InstallResult(ok) == IF ok THEN "installed" ELSE "redundant"

\* lines 31-37: every cache whose name is not CACHE_NAME is deleted
KeysToDelete(cacheNames) == {n \in cacheNames : n # CACHE_NAME}

StartsWithHttp(url) == url.scheme \in {"http", "https"}

\* lines 49 and 52: the two early returns of the fetch listener
BypassMethodOnly(request) == request.method # "GET"

Bypass(request) == request.method # "GET" \/ ~StartsWithHttp(request.url)

\* line 68, negated: the response goes on to be cloned and stored
CacheableAnyType(response) == response.status = 200

Cacheable(response) == response.status = 200 /\ response.type = "basic"

NoOutcome ==
    [worker |-> "none", request |-> Request("none", Own("none"), "none"),
     kind |-> "none", from |-> "none", response |-> NoResponse, write |-> FALSE]

\* the handler of one fetch event finished: what the client got
Outcome(worker, request, kind, from, response, write) ==
    [worker |-> worker, request |-> request, kind |-> kind, from |-> from,
     response |-> response, write |-> write]

\* lines 11-15: the install event; caches.open(CACHE_NAME)
InstallEvent ==
    /\ swNew \in {"parsed", "redundant"}
    /\ swNew' = "installing"
    /\ swFailed' = FALSE
    /\ swCaches' = cachesOpen(swCaches, CACHE_NAME, swNextId)
    /\ swNextId' = IF HasCache(swCaches, CACHE_NAME) THEN swNextId ELSE swNextId + 1
    /\ UNCHANGED <<swActive, swToDelete, swReqs, swWrites, swLast, swHits, swUnhandled,
                   swOverwritten>>
    /\ UNCHANGED <<storeVars, calcVars, chanVars, pmVars>>

\* lines 15-22: addAll resolves (every manifest response arrived) or rejects
AddAllDone(ok) ==
    /\ swNew = "installing"
    /\ swNew' = InstallResult(ok)
    /\ swFailed' = ~ok
    /\ swCaches' = IF ok THEN cacheAddAll(swCaches, CACHE_NAME, Manifest) ELSE swCaches
    /\ UNCHANGED <<swNextId, swActive, swToDelete, swReqs, swWrites, swLast, swHits,
                   swUnhandled,
                   swOverwritten>>
    /\ UNCHANGED <<storeVars, calcVars, chanVars, pmVars>>

\* lines 27-37: after skipWaiting the worker is activated as soon as the
\* active one has no pending event; the activate handler reads caches.keys()
\* and issues the deletions
ActivateEvent ==
    /\ swNew = "installed"
    /\ swReqs = {}
    /\ swNew' = "activating"
    /\ swActive' = CACHE_NAME
    /\ swToDelete' = KeysToDelete(cachesKeys(swCaches))
    /\ UNCHANGED <<swCaches, swNextId, swFailed, swReqs, swWrites, swLast, swHits,
                   swUnhandled,
                   swOverwritten>>
    /\ UNCHANGED <<storeVars, calcVars, chanVars, pmVars>>

\* line 35: one caches.delete takes effect
DeleteCache(name) ==
    /\ swNew = "activating"
    /\ name \in swToDelete
    /\ swToDelete' = swToDelete \ {name}
    /\ swCaches' = cachesDelete(swCaches, name)
    /\ UNCHANGED <<swNextId, swActive, swNew, swFailed, swReqs, swWrites, swLast,
                   swHits, swUnhandled,
                   swOverwritten>>
    /\ UNCHANGED <<storeVars, calcVars, chanVars, pmVars>>

\* lines 39-42: Promise.all resolved; clients.claim()
ActivateDone ==
    /\ swNew = "activating"
    /\ swToDelete = {}
    /\ swNew' = "activated"
    /\ swHits' = {}
    /\ UNCHANGED <<swCaches, swNextId, swActive, swFailed, swToDelete, swReqs,
                   swWrites, swLast, swUnhandled,
                   swOverwritten>>
    /\ UNCHANGED <<storeVars, calcVars, chanVars, pmVars>>

\* lines 47-55: a fetch event reaches the active worker; the browser holds
\* fetch events while the worker is activating; cached records whether
\* caches.match had an entry for the request when the event arrived
FetchEvent(request) ==
    /\ swNew # "activating"
    /\ IF Bypass(request)
       THEN /\ swLast' = Outcome(swActive, request, "bypass", "none", NoResponse, FALSE)
            /\ UNCHANGED swReqs
       ELSE /\ Cardinality(swReqs) < MaxInflight
            /\ swReqs' = swReqs \cup
                  {[worker |-> swActive, request |-> request, phase |-> "match",
                    cached |-> cachesMatch(swCaches, request.url).t = "hit"]}
            /\ UNCHANGED swLast
    /\ UNCHANGED <<swCaches, swNextId, swActive, swNew, swFailed, swToDelete,
                   swWrites, swHits, swUnhandled, swOverwritten>>
    /\ UNCHANGED <<storeVars, calcVars, chanVars, pmVars>>

\* lines 55-65: caches.match resolved; a hit is the response, a miss goes on
\* to fetch(event.request)
MatchDone(r) ==
    /\ r \in swReqs
    /\ r.phase = "match"
    /\ LET m == cachesMatch(swCaches, r.request.url)
       IN  IF m.t = "hit"
           THEN /\ swReqs' = swReqs \ {r}
                /\ swLast' = Outcome(r.worker, r.request, "cache", m.name,
                                     m.response, FALSE)
                /\ swHits' = swHits \cup {m.name}
           ELSE /\ swReqs' = (swReqs \ {r}) \cup {[r EXCEPT !.phase = "fetch"]}
                /\ UNCHANGED <<swLast, swHits>>
    /\ UNCHANGED <<swCaches, swNextId, swActive, swNew, swFailed, swToDelete,
                   swWrites, swUnhandled, swOverwritten>>
    /\ UNCHANGED <<storeVars, calcVars, chanVars, pmVars>>

\* the chain of lines 76-79 as its handler leaves it: caches.open(CACHE_NAME)
\* has been called and nothing holds its promise
NewWrite(worker, url, response) ==
    [worker |-> worker, url |-> url, response |-> response,
     phase |-> "open", id |-> 0]

\* lines 66-82: fetch resolved with a response, which is returned; for a
\* cacheable one caches.open(CACHE_NAME) is called first
NetResolved(r, response) ==
    IF Cacheable(response)
    THEN /\ Cardinality(swWrites) < MaxWrites
         /\ swWrites' = swWrites \cup
               {NewWrite(r.worker, r.request.url, response)}
         /\ swLast' = Outcome(r.worker, r.request, "network", "none", response, TRUE)
    ELSE /\ swLast' = Outcome(r.worker, r.request, "network", "none", response, FALSE)
         /\ UNCHANGED swWrites

\* lines 83-136: fetch rejected; the catch callback returns the offline page
\* for a document and undefined for anything else
NetRejected(r) ==
    /\ swLast' = IF r.request.destination = "document"
                 THEN Outcome(r.worker, r.request, "offline", "none", OfflinePage, FALSE)
                 ELSE Outcome(r.worker, r.request, "error", "none", NoResponse, FALSE)
    /\ UNCHANGED swWrites

NetDone(r, outcome) ==
    /\ r \in swReqs
    /\ r.phase = "fetch"
    /\ swReqs' = swReqs \ {r}
    /\ IF outcome = NetworkError THEN NetRejected(r) ELSE NetResolved(r, outcome)
    /\ UNCHANGED <<swCaches, swNextId, swActive, swNew, swFailed, swToDelete,
                   swHits, swUnhandled, swOverwritten>>
    /\ UNCHANGED <<storeVars, calcVars, chanVars, pmVars>>

\* line 76: the caches.open(CACHE_NAME) of a chain takes effect, creating the
\* cache when CacheStorage has none of that name.  The call returned a promise
\* when it was made; the event it was made in may have finished since, and
\* CacheStorage orders it with no other operation.  The then-callback of line
\* 77 runs only in a worker that has not been terminated.
WriteOpen(w) ==
    /\ w \in swWrites
    /\ w.phase = "open"
    /\ swCaches' = cachesOpen(swCaches, w.worker, swNextId)
    /\ swNextId' = IF HasCache(swCaches, w.worker) THEN swNextId ELSE swNextId + 1
    /\ swWrites' =
          IF w.worker = swActive
          THEN (swWrites \ {w}) \cup
                  {[w EXCEPT !.phase = "put",
                             !.id = CacheNamed(swCaches', w.worker).id]}
          ELSE swWrites \ {w}
    /\ UNCHANGED <<swActive, swNew, swFailed, swToDelete, swReqs, swLast, swHits,
                   swUnhandled, swOverwritten>>
    /\ UNCHANGED <<storeVars, calcVars, chanVars, pmVars>>

\* the cache of identity id holds an entry for url
HoldsEntry(cs, id, url) ==
    \E i \in 1..Len(cs) : cs[i].id = id /\ url \in DOMAIN cs[i].entries

\* lines 77-79: the then-callback of caches.open calls cache.put, whose
\* promise nobody holds; the put stores the entry or rejects
WritePut(w, ok) ==
    /\ w \in swWrites
    /\ w.phase = "put"
    /\ swWrites' = swWrites \ {w}
    /\ swCaches' = IF ok THEN cachePut(swCaches, w.id, w.url, Entry(w.response, "put"))
                   ELSE swCaches
    /\ swUnhandled' = (swUnhandled \/ ~ok)
    /\ swOverwritten' = (swOverwritten \/ (ok /\ HoldsEntry(swCaches, w.id, w.url)))
    /\ UNCHANGED <<swNextId, swActive, swNew, swFailed, swToDelete, swReqs, swLast,
                   swHits>>
    /\ UNCHANGED <<storeVars, calcVars, chanVars, pmVars>>

\* lines 76-79: the worker that was replaced is terminated before the chain
\* got further
WriteDropped(w) ==
    /\ w \in swWrites
    /\ w.worker # swActive
    /\ swWrites' = swWrites \ {w}
    /\ UNCHANGED <<swCaches, swNextId, swActive, swNew, swFailed, swToDelete, swReqs,
                   swLast, swHits, swUnhandled, swOverwritten>>
    /\ UNCHANGED <<storeVars, calcVars, chanVars, pmVars>>

----------------------------------------------------------------------------
(* Predictive maintenance (lines 1064-1125)                                *)
(*                                                                         *)
(* The risks are fractions; the model holds a component risk in units of   *)
(* 1/RiskUnit and the overall risk, which is a quarter of their sum, in    *)
(* units of 1/OverallUnit, so that every value is a whole number.  Times   *)
(* are whole days, counted from the construction of the dashboard.         *)

RiskUnit == 300

OverallUnit == 4 * RiskUnit

DAYS_30 == 30

Max(a, b) == IF a >= b THEN a ELSE b

Min(a, b) == IF a <= b THEN a ELSE b

\* line 1078: Math.max(0, (temperature - 75) / 25)
tempRisk(temperature) == Max(0, (temperature - 75) * (RiskUnit \div 25))

\* line 1079: vibration / 10
vibrationRisk(vibration) == vibration * (RiskUnit \div 10)

\* line 1080: Math.max(0, (85 - efficiency) / 20)
efficiencyRiskReversed(efficiency) == Max(0, (efficiency - 85) * (RiskUnit \div 20))

efficiencyRisk(efficiency) == Max(0, (85 - efficiency) * (RiskUnit \div 20))

\* line 1081: Math.min(1, runTime / 30 days)
timeRisk(runTime) == Min(RiskUnit, runTime * (RiskUnit \div DAYS_30))

\* lines 1069-1073: what the assessment reads
Factors(temperature, vibration, efficiency, runTime) ==
    [temperature |-> temperature, vibration |-> vibration,
     efficiency |-> efficiency, runTime |-> runTime]

\* line 1083: (tempRisk + vibrationRisk + efficiencyRisk + timeRisk) / 4
overallRisk(factors) ==
    tempRisk(factors.temperature) + vibrationRisk(factors.vibration)
        + efficiencyRisk(factors.efficiency) + timeRisk(factors.runTime)

\* line 1086 with a slope of 24 days
daysToMaintenanceSteeper(risk) == Max(0, 14 * OverallUnit - risk * 24)

\* line 1086: Math.max(0, 14 - overallRisk * 14), in units of 1/OverallUnit
daysToMaintenance(risk) == Max(0, 14 * OverallUnit - risk * 14)

Recommendation(priority) == [priority |-> priority]

\* lines 1099-1125, with >= for the first comparison
getMaintenanceRecommendationInclusive(riskScore, days) ==
    IF riskScore * 10 >= 8 * OverallUnit THEN Recommendation("CRITICAL")
    ELSE IF riskScore * 10 > 6 * OverallUnit THEN Recommendation("HIGH")
    ELSE IF days <= 2 * OverallUnit THEN Recommendation("MEDIUM")
    ELSE Recommendation("LOW")

\* lines 1099-1125: riskScore and days in units of 1/OverallUnit
getMaintenanceRecommendation(riskScore, days) ==
    IF riskScore * 10 > 8 * OverallUnit THEN Recommendation("CRITICAL")
    ELSE IF riskScore * 10 > 6 * OverallUnit THEN Recommendation("HIGH")
    ELSE IF days <= 2 * OverallUnit THEN Recommendation("MEDIUM")
    ELSE Recommendation("LOW")

\* Math.round of a value >= 0 held in units of 1/OverallUnit
Round(x) == (2 * x + OverallUnit) \div (2 * OverallUnit)

\* lines 1069-1094 for a value of this.machines[machineId] that is no machine
\* (an inherited property): every factor reads as undefined, every risk and
\* the days are NaN, and no comparison of lines 1100-1112 is true
NaNAssessment == [t |-> "NaN", recommendation |-> Recommendation("LOW")]

\* lines 1064-1096; now is Date.now() in days
calculatePredictiveMaintenance(ms, machineId, now) ==
    IF ~Truthy(Lookup(ms, machineId)) THEN Null
    ELSE IF Lookup(ms, machineId).kind = "inherited" THEN NaNAssessment
    ELSE LET machine == ms[machineId]
             factors == Factors(machine.temperature.n, machine.vibration.n,
                                machine.efficiency.n, now - machine.lastMaintenance.n)
             risk == overallRisk(factors)
             days == daysToMaintenance(risk)
         IN  [t |-> "object",
              riskScore |-> risk,
              daysToMaintenance |-> Round(days),
              predictedMaintenanceDate |-> now * OverallUnit + days,
              factors |-> factors,
              risks |-> [temperature |-> tempRisk(factors.temperature),
                         vibration |-> vibrationRisk(factors.vibration),
                         efficiency |-> efficiencyRisk(factors.efficiency),
                         time |-> timeRisk(factors.runTime)],
              recommendation |-> getMaintenanceRecommendation(risk, days)]

\* telemetry that moves the metrics of a machine to and past the edges of
\* their nominal ranges
PmEvents ==
    {MachineStatusEvent("MACHINE_C1", "running", t, v, e) :
        t \in {Undefined, N(75), N(100), N(150)}, v \in {Undefined, N(12)},
        e \in {Undefined, N(40)}}

PmIds == {"MACHINE_C1", "MACHINE_X9", "constructor"}

\* Date.now() at a call, in days since construction
PmNow == {0, 12, 40}

NoAssessment == [t |-> "none"]

Telemetry ==
    /\ \E data \in PmEvents : Apply(data)
    /\ UNCHANGED <<calcVars, chanVars, swVars, pmVars>>

\* lines 1064-1096, with the score kept on the machine it was computed for
machinesAfterAssessmentKeepsScore(ms, machineId) ==
    IF machineId \in DOMAIN ms
    THEN [ms EXCEPT ![machineId] =
             [k \in DOMAIN @ \cup {"riskScore"} |->
                 IF k = "riskScore" THEN N(0) ELSE @[k]]]
    ELSE ms

\* lines 1064-1096 assign no property of this.machines
machinesAfterAssessment(ms, machineId) == ms

CalculatePredictiveMaintenance ==
    /\ \E machineId \in PmIds, now \in PmNow :
          /\ pmIn' = [machineId |-> machineId, now |-> now]
          /\ pmOut' = calculatePredictiveMaintenance(machines, machineId, now)
          /\ machines' = machinesAfterAssessment(machines, machineId)
    /\ UNCHANGED <<productionLines, alerts, lastData, threw, before, repeated>>
    /\ UNCHANGED <<recIn, recOut, selectedMachine, calcVars, chanVars, swVars>>

\* arguments of getMaintenanceRecommendation, around its thresholds
RecRisks == {0, 300, 719, 720, 721, 840, 959, 960, 961, 1200, 1500}

RecDays == {0, 1200, 2399, 2400, 2401, 8400, 16800}

GetMaintenanceRecommendation ==
    /\ recOut = NoAssessment
    /\ recOut' = getMaintenanceRecommendation(recIn.riskScore, recIn.days)
    /\ UNCHANGED <<recIn, pmIn, pmOut, selectedMachine, storeVars, calcVars, chanVars, swVars>>

----------------------------------------------------------------------------
(* Specifications *)

InitStoreWith(seed) ==
    /\ machines = createDemoLayout(seed).machines
    /\ productionLines = createDemoLayout(seed).productionLines
    /\ alerts = <<>>
    /\ lastData = NoData
    /\ threw = FALSE
    /\ before = Snapshot
    /\ repeated = FALSE

InitStore == \E seed \in Seeds : InitStoreWith(seed)

\* the constructor ends with init(), which calls setupSocketConnection() once
InitChanWith(created) ==
    /\ sockets = IF created THEN <<NewSocket>> ELSE <<>>
    /\ socket = IF created THEN "live" ELSE "null"
    /\ pendingRetry = ~created
    /\ timers = <<>>
    /\ disposed = FALSE
    /\ openedAfterDispose = FALSE
    /\ received = <<>>
    /\ delivered = <<>>
    /\ uncaught = FALSE
    /\ attemptTick = FALSE
    /\ lastEvent = "none"

InitChan == \E created \in BOOLEAN : InitChanWith(created)

\* the prior epoch is active, its cache holds its manifest, and the worker of
\* line 1 has been registered
InitSwWith(prior) ==
    /\ swCaches = <<[NewCache(1, PRIOR_CACHE_NAME) EXCEPT !.entries =
                        [u \in prior |-> Entry(ManifestResponse(u), "addAll")]]>>
    /\ swNextId = 2
    /\ swActive = PRIOR_CACHE_NAME
    /\ swNew = "parsed"
    /\ swFailed = FALSE
    /\ swToDelete = {}
    /\ swReqs = {}
    /\ swWrites = {}
    /\ swLast = NoOutcome
    /\ swHits = {}
    /\ swUnhandled = FALSE
    /\ swOverwritten = FALSE

\* no assessment has been asked for
InitPm ==
    /\ pmIn = NoAssessment
    /\ pmOut = NoAssessment
    /\ recIn = NoAssessment
    /\ selectedMachine = Null
    /\ recOut = NoAssessment

Init ==
    /\ InitStore
    /\ InitChan
    /\ calcIn = <<>>
    /\ calcOut = NoResult
    /\ lineOut = NoResult
    /\ InitSwWith(Manifest)
    /\ InitPm

Next == HandleRealtimeData

Spec == Init /\ [][Next]_vars

InitCalc ==
    /\ InitStore
    /\ InitChan
    /\ calcIn \in CalcInputs
    /\ calcOut = NoResult
    /\ lineOut = NoResult
    /\ InitSwWith(Manifest)
    /\ InitPm

NextCalc == CalculateLineStatus \/ CreateProductionLine

CalcSpec == InitCalc /\ [][NextCalc]_vars

SocketEvent ==
    \E i \in 1..Len(sockets) :
        \/ SocketOpen(i)
        \/ \E frame \in ChanFrames : SocketMessage(i, frame)
        \/ SocketError(i)
        \/ SocketClose(i)

TimerFires == \E i \in 1..Len(timers) : TimerFire(i)

\* the close event the browser fires after an error event
CloseAfterError ==
    \E i \in 1..Len(sockets) : sockets[i].errored /\ SocketClose(i)

NextChan == SocketEvent \/ TimerFires \/ dispose

ChanSpec == Init /\ [][NextChan]_vars

\* a pending timer fires after its delay; the browser fires close after error
FairChanSpec ==
    Init /\ [][NextChan]_vars /\ WF_vars(TimerFires) /\ WF_vars(CloseAfterError)

\* the service worker: one update from the prior epoch to CACHE_NAME
InitSw ==
    /\ InitStore
    /\ InitChanWith(TRUE)
    /\ calcIn = <<>>
    /\ calcOut = NoResult
    /\ lineOut = NoResult
    /\ \E prior \in PriorManifests : InitSwWith(prior)
    /\ InitPm

NextSw ==
    \/ InstallEvent
    \/ \E ok \in BOOLEAN : AddAllDone(ok)
    \/ ActivateEvent
    \/ \E name \in swToDelete : DeleteCache(name)
    \/ ActivateDone
    \/ \E request \in SwRequests : FetchEvent(request)
    \/ \E r \in swReqs : MatchDone(r)
    \/ \E r \in swReqs : \E outcome \in NetOutcomes(r.request.url) : NetDone(r, outcome)
    \/ \E w \in swWrites : WriteOpen(w)
    \/ \E w \in swWrites : \E ok \in BOOLEAN : WritePut(w, ok)
    \/ \E w \in swWrites : WriteDropped(w)

SwSpec == InitSw /\ [][NextSw]_vars

\* the assessment, on every store the telemetry can produce
InitPmSpec ==
    /\ InitStore
    /\ InitChanWith(TRUE)
    /\ calcIn = <<>>
    /\ calcOut = NoResult
    /\ lineOut = NoResult
    /\ InitSwWith(Manifest)
    /\ InitPm

NextPm == Telemetry \/ CalculatePredictiveMaintenance

PmSpec == InitPmSpec /\ [][NextPm]_vars

\* getMaintenanceRecommendation as a function of its two arguments
InitRec ==
    /\ InitStore
    /\ InitChanWith(TRUE)
    /\ calcIn = <<>>
    /\ calcOut = NoResult
    /\ lineOut = NoResult
    /\ InitSwWith(Manifest)
    /\ pmIn = NoAssessment
    /\ pmOut = NoAssessment
    /\ recIn \in [riskScore : RecRisks, days : RecDays]
    /\ recOut = NoAssessment
    /\ selectedMachine = Null

NextRec == GetMaintenanceRecommendation

RecSpec == InitRec /\ [][NextRec]_vars

----------------------------------------------------------------------------
(* Properties *)

IsObject(d) == d.t = "object"

IsMachineStatus(d) == IsObject(d) /\ d.type = S("machineStatus")

\* a machineStatus event addressed to a machine of the store
IsKnownStatusEvent(d) ==
    IsMachineStatus(d) /\ ToKey(d.machineId) \in DOMAIN before.machines

\* an event of an unknown type, or a machineStatus event for an unknown machine
IsUnknownEvent(d) ==
    /\ IsObject(d)
    /\ \/ d.type \notin {S("machineStatus"), S("alert")}
       \/ IsMachineStatus(d) /\ ToKey(d.machineId) \notin DOMAIN before.machines

MembersOf(l) ==
    [i \in 1..Len(productionLines[l].machines) |->
        machines[productionLines[l].machines[i]]]

\* C1: in every reachable state each production line's stored status equals
\* the aggregation rule evaluated on the current stored statuses of its
\* member machines.
C1_LineStatusIsFresh ==
    \A l \in DOMAIN productionLines :
        productionLines[l].status = calculateLineStatus(MembersOf(l))

\* C2: calculateLineStatus returns 'stopped' if any member is offline or in
\* maintenance, otherwise 'running' if all members are running, otherwise
\* 'warning'; the result is determined by the set of statuses passed in.
C2_AggregationRule ==
    calcOut # NoResult =>
        LET given == {calcIn[i].status : i \in 1..Len(calcIn)}
        IN  calcOut = IF S("offline") \in given \/ S("maintenance") \in given
                      THEN S("stopped")
                      ELSE IF given \subseteq {S("running")}
                           THEN S("running") ELSE S("warning")

\* C2 witness: [running, running, maintenance, stopped] has been evaluated
\* and gave 'stopped'.
C2_Witness ==
    /\ calcOut = S("stopped")
    /\ [i \in 1..Len(calcIn) |-> calcIn[i].status]
         = <<S("running"), S("running"), S("maintenance"), S("stopped")>>

\* C3: an event of an unknown type, or a machineStatus event whose machineId
\* is not in the store, never throws, never creates a machine and leaves
\* every machine and every production line unchanged.
C3_UnknownEventIsNoOp ==
    IsUnknownEvent(lastData) =>
        /\ ~threw
        /\ DOMAIN machines = DOMAIN before.machines
        /\ machines = before.machines
        /\ productionLines = before.productionLines

Metrics == {"temperature", "vibration", "efficiency"}

\* C4: after a machineStatus event for a known machine, the machine's status
\* is the event's, every metric present in the event has the event's value
\* (0 included), every absent metric keeps its value, and no other machine
\* changes.
C4_StatusEventApplied ==
    IsKnownStatusEvent(lastData) =>
        LET id == ToKey(lastData.machineId)
        IN  /\ machines[id].status = lastData.status
            /\ \A f \in Metrics :
                  machines[id][f] = IF lastData[f] = Undefined
                                    THEN before.machines[id][f]
                                    ELSE lastData[f]
            /\ \A o \in DOMAIN machines \ {id} : machines[o] = before.machines[o]

\* a step in which the close event of some socket is dispatched
CloseEventStep == Len(sockets') < Len(sockets)

\* C5: every close event schedules exactly one reconnect timer, with the
\* fixed delay of 5000 ms; a timer is scheduled by no other step (an error
\* event schedules none, so an error followed by its close yields one).
C5_OneReconnectPerClose ==
    [][/\ CloseEventStep => timers' = Append(timers, RECONNECT_DELAY)
       /\ Len(timers') > Len(timers) =>
             CloseEventStep /\ timers' = Append(timers, RECONNECT_DELAY)
       /\ \A i \in 1..Len(timers') : timers'[i] = RECONNECT_DELAY]_vars

\* C5 witness: a socket failed with an error, its close event followed, and
\* exactly one reconnect is pending.
C5_Witness ==
    /\ lastEvent = "closeAfterError"
    /\ timers = <<RECONNECT_DELAY>>
    /\ sockets = <<>>

\* C6: as long as the channel has not been torn down, every close, error or
\* failed creation of the socket is eventually followed by a new connect
\* attempt.
C6_AlwaysRetries ==
    \A b \in BOOLEAN :
        (pendingRetry /\ ~disposed /\ attemptTick = b)
            ~> (attemptTick # b \/ disposed)

\* C7: after dispose() no reconnect timer is pending or becomes pending and
\* no new socket is opened.
C7_DisposeCancelsReconnect ==
    disposed => timers = <<>> /\ ~openedAfterDispose

\* a step in which a frame f is received
Receives(f) == received' = Append(received, f)

\* C8: a frame that fails to parse is dropped: machines, lines and alerts are
\* unchanged, nothing is handed to the handler, no exception escapes the
\* callback, the socket stays open and no reconnect is scheduled; the frame
\* after it, if well-formed, is handed to the handler as usual.
C8_MalformedFrameDropped ==
    [][/\ Receives(Malformed) =>
             /\ machines' = machines
             /\ productionLines' = productionLines
             /\ alerts' = alerts
             /\ delivered' = delivered
             /\ ~uncaught'
             /\ sockets' = sockets
             /\ timers' = timers
       /\ \A f \in ChanFrames \ {Malformed} :
             (received # <<>> /\ received[Len(received)] = Malformed /\ Receives(f))
                 => /\ delivered' = Append(delivered, f.value)
                    /\ machines' = handleRealtimeData(machines, alerts, f.value).machines
                    /\ alerts' = handleRealtimeData(machines, alerts, f.value).alerts]_vars

StatusFrame ==
    Json(MachineStatusEvent("MACHINE_C1", "offline", N(85), Undefined, Undefined))

\* C8 witness: a malformed frame was received, then a machine status frame,
\* which has been applied; the socket is still open.
C8_Witness ==
    /\ Len(received) = 2
    /\ received[1] = Malformed
    /\ received[2] = StatusFrame
    /\ machines["MACHINE_C1"].status = S("offline")
    /\ machines["MACHINE_C1"].temperature = N(85)
    /\ \E i \in 1..Len(sockets) : sockets[i].readyState = "OPEN"

RECURSIVE ValuesOf(_)
\* the values of the well-formed frames of a sequence of frames, in order
ValuesOf(frames) ==
    IF frames = <<>> THEN <<>>
    ELSE IF frames[1].kind = "json"
         THEN <<frames[1].value>> \o ValuesOf(Tail(frames))
         ELSE ValuesOf(Tail(frames))

\* C9: at every moment the values handed to handleRealtimeData are exactly
\* the well-formed frames received so far, once each and in the order
\* received: none is reordered, duplicated, dropped or held back.
C9_DeliveredInOrder == delivered = ValuesOf(received)

\* C9 witness: two equal frames and another one were received, on sockets
\* separated by a reconnect.
C9_Witness ==
    /\ Len(received) >= 3
    /\ received[1] = received[2]
    /\ received[1].kind = "json"
    /\ lastEvent = "message"
    /\ attemptTick

\* C10: applying the same machineStatus event twice in succession leaves all
\* machines and lines as the first application left them.
C10_Idempotent ==
    (repeated /\ IsMachineStatus(lastData)) =>
        /\ machines = before.machines
        /\ productionLines = before.productionLines

\* C10 witness: an event for a known machine carrying metrics was applied
\* twice in succession.
C10_Witness ==
    /\ repeated
    /\ IsKnownStatusEvent(lastData)
    /\ lastData.status = S("offline")
    /\ lastData.temperature = N(85)
    /\ lastData.vibration = N(6)
    /\ machines["MACHINE_C1"].vibration = N(6)

----------------------------------------------------------------------------
(* Properties of the service worker *)

\* the entries a fetch handler can retrieve from the cache of one name
EntriesOf(cs, name) ==
    IF HasCache(cs, name) THEN DOMAIN CacheNamed(cs, name).entries ELSE {}

\* every URL that was retrievable is still answered with the same entry
StillServed ==
    \A u \in Manifest \cup {rq.url : rq \in SwRequests} :
        cachesMatch(swCaches, u).t = "hit" => cachesMatch(swCaches', u) = cachesMatch(swCaches, u)

\* C11: a failed install is atomic.  After addAll rejected, the cache of the
\* new epoch holds no entry, the new worker has not been activated (the prior
\* worker is the active one and no deletion is pending or done), and as long
\* as the failure stands no step removes or changes an entry that was served.
C11_InstallAtomic ==
    /\ [](swFailed =>
            /\ swNew = "redundant"
            /\ EntriesOf(swCaches, CACHE_NAME) = {}
            /\ swActive = PRIOR_CACHE_NAME
            /\ swToDelete = {}
            /\ HasCache(swCaches, PRIOR_CACHE_NAME))
    /\ [][swFailed' => StillServed]_vars

\* an install failed, and a request was then answered from the prior epoch
C11_Witness ==
    /\ swFailed
    /\ HasCache(swCaches, CACHE_NAME)
    /\ swLast.kind = "cache"
    /\ swLast.from = PRIOR_CACHE_NAME
    /\ swHits = {PRIOR_CACHE_NAME}

\* a fetch event for a manifest resource that the worker of CACHE_NAME handled
ManifestFetchByNewWorker ==
    /\ swLast.worker = CACHE_NAME
    /\ swLast.request.method = "GET"
    /\ swLast.request.url \in Manifest

\* C12: once the worker of CACHE_NAME is activated on top of the prior epoch,
\* CACHE_NAME is the only cache, every manifest resource is held by it, and
\* every fetch event for a manifest resource it handled was answered from
\* that cache, with no network request.
C12_OnlyNewEpochAfterActivate ==
    swNew = "activated" =>
        /\ cachesKeys(swCaches) = {CACHE_NAME}
        /\ \A u \in Manifest :
              /\ cachesMatch(swCaches, u).t = "hit"
              /\ cachesMatch(swCaches, u).name = CACHE_NAME
        /\ ManifestFetchByNewWorker =>
              /\ swLast.kind = "cache"
              /\ swLast.from = CACHE_NAME

\* C13: reads observe a single epoch.  Between two completed activations,
\* whatever the interleaving of fetch events with the install and activate
\* steps, all cache hits come from one cache: entries of the prior epoch are
\* never served together with entries of the new one.
C13_HitsFromOneEpoch == Cardinality(swHits) <= 1

\* C14: a cached response is returned only when its entry belongs to the epoch
\* of the worker that handles the request and the request is same-origin; an
\* entry held only by the cache of another epoch is not served.
C14_HitOnlyFromOwnEpoch ==
    swLast.kind = "cache" =>
        /\ swLast.from = swLast.worker
        /\ SameOrigin(swLast.request.url)

\* the step in which the handler of r gets the outcome of its network fetch
NetStep(r) == r \in swReqs /\ r.phase = "fetch" /\ r \notin swReqs'

\* the claim's cacheable response: status 200 and type 'basic'
Status200Basic(response) == response.status = 200 /\ response.type = "basic"

\* the write that the handler of r leaves behind for its response
WriteFor(r, response) ==
    [worker |-> swActive',
     url |-> r.request.url, response |-> response, phase |-> "open", id |-> 0]

\* C15: on a cache miss with a successful network fetch, the response goes back
\* to the caller as the network gave it; a write of it into the cache of the
\* active epoch is left pending exactly when it has status 200 and type
\* 'basic', and the response is returned before that write has stored
\* anything; a response that is not cacheable leaves no write, and no entry
\* stored by a put is anything else than a status-200 'basic' response.
C15_WritesExactlyCacheable ==
    /\ [](/\ \A w \in swWrites : Status200Basic(w.response)
          /\ \A i \in 1..Len(swCaches) : \A u \in DOMAIN swCaches[i].entries :
                swCaches[i].entries[u].via = "put" =>
                    Status200Basic(swCaches[i].entries[u].response)
          /\ swLast.kind = "network" =>
                /\ swLast.response \in NetResponses(swLast.request.url)
                /\ swLast.write <=> Status200Basic(swLast.response))
    /\ [][\A r \in swReqs : NetStep(r) /\ swLast'.kind = "network" =>
             /\ r.worker = swActive
             /\ swCaches' = swCaches
             /\ IF Status200Basic(swLast'.response)
                THEN swWrites' = swWrites \cup {WriteFor(r, swLast'.response)}
                ELSE swWrites' = swWrites]_vars

\* a cacheable response was returned while its write is still pending and the
\* cache does not hold the entry yet
C15_Witness ==
    /\ swLast.kind = "network"
    /\ swLast.write
    /\ \E w \in swWrites : w.url = swLast.request.url /\ w.response = swLast.response
    /\ cachesMatch(swCaches, swLast.request.url).t = "miss"

\* the handler ended with a failed network fetch after a cache miss
NetworkFailed == swLast.kind \in {"offline", "error"}

\* C16: after a cache miss and a failed network fetch, a document request is
\* answered with the offline page and any other request with a failure; and
\* no failure of the worker's cache or network operations is left without a
\* handler.
C16_NoFaultEscapes ==
    /\ NetworkFailed =>
          /\ swLast.kind = "offline" <=> swLast.request.destination = "document"
          /\ swLast.kind = "offline" => swLast.response = OfflinePage
          /\ swLast.kind = "error" => swLast.response = NoResponse
    /\ ~swUnhandled

\* a request the fetch listener returns from at line 49 or line 52
IsBypassed(request) == request.method # "GET" \/ request.url.scheme \notin {"http", "https"}

\* C17: for a request that is not GET or not HTTP(S) the fetch handler does
\* nothing: such a request never has a respondWith promise, never gets a
\* cached, network or offline answer and never has a cache write pending, and
\* the step that handles it leaves the caches, the pending requests and the
\* pending writes as they were.
C17_BypassDoesNothing ==
    /\ [](/\ \A r \in swReqs : ~IsBypassed(r.request)
          /\ \A w \in swWrites : w.url.scheme \in {"http", "https"}
          /\ swLast.kind # "none" => (swLast.kind = "bypass" <=> IsBypassed(swLast.request)))
    /\ [][swLast' # swLast /\ swLast'.kind = "bypass" =>
             UNCHANGED <<swCaches, swNextId, swReqs, swWrites, swHits, swUnhandled,
                         swActive, swNew>>]_vars

\* a GET request of another scheme was handed to the handler, which returned
C17_Witness ==
    /\ swLast.kind = "bypass"
    /\ swLast.request.method = "GET"
    /\ swLast.request.url.scheme = "chrome-extension"

----------------------------------------------------------------------------
(* Properties of the predictive-maintenance assessment *)

Assessed == pmOut.t = "object"

\* C18: for every machine state that construction and telemetry events can
\* produce, each of the four risk components lies in [0, 1] and so does the
\* overall risk; temperature 75 gives temperature risk 0 and temperature 100
\* gives temperature risk 1.
C18_RisksWithinUnitInterval ==
    Assessed =>
        /\ pmOut.risks.temperature \in 0..RiskUnit
        /\ pmOut.risks.vibration \in 0..RiskUnit
        /\ pmOut.risks.efficiency \in 0..RiskUnit
        /\ pmOut.risks.time \in 0..RiskUnit
        /\ pmOut.riskScore \in 0..OverallUnit
        /\ pmOut.factors.temperature = 75 => pmOut.risks.temperature = 0
        /\ pmOut.factors.temperature = 100 => pmOut.risks.temperature = RiskUnit

\* C19: getMaintenanceRecommendation applies its tiers in order and the first
\* match wins: risk > 0.8 gives CRITICAL, otherwise risk > 0.6 gives HIGH,
\* otherwise days <= 2 gives MEDIUM, otherwise LOW; one tier is returned for
\* every input, risk exactly 0.8 gives HIGH and risk exactly 0.6 does not.
C19_TiersInOrder ==
    recOut # NoAssessment =>
        LET risk == recIn.riskScore
            days == recIn.days
            above08 == 10 * risk > 8 * OverallUnit
            above06 == 10 * risk > 6 * OverallUnit
            within2 == days <= 2 * OverallUnit
            p == recOut.priority
        IN  /\ p \in {"CRITICAL", "HIGH", "MEDIUM", "LOW"}
            /\ p = "CRITICAL" <=> above08
            /\ p = "HIGH" <=> ~above08 /\ above06
            /\ p = "MEDIUM" <=> ~above08 /\ ~above06 /\ within2
            /\ p = "LOW" <=> ~above08 /\ ~above06 /\ ~within2
            /\ 10 * risk = 8 * OverallUnit => p = "HIGH"
            /\ 10 * risk = 6 * OverallUnit => p # "HIGH"

\* the recommendation was computed at risk exactly 0.8
C19_Witness ==
    /\ recOut # NoAssessment
    /\ 10 * recIn.riskScore = 8 * OverallUnit
    /\ recOut.priority = "HIGH"

\* steps by which the monotonicity of the assessment is probed
Steps == {1, 5, 30}

\* C20: the risk assessment is monotonic.  With the other inputs fixed, a
\* higher temperature, a higher vibration or a longer time since the last
\* maintenance never gives a lower overall risk, and a higher efficiency never
\* gives a higher one.
C20_Monotonic ==
    Assessed =>
        LET f == pmOut.factors
        IN  \A d \in Steps :
              /\ overallRisk([f EXCEPT !.temperature = @ + d]) >= pmOut.riskScore
              /\ overallRisk([f EXCEPT !.vibration = @ + d]) >= pmOut.riskScore
              /\ overallRisk([f EXCEPT !.runTime = @ + d]) >= pmOut.riskScore
              /\ overallRisk([f EXCEPT !.efficiency = @ + d]) <= pmOut.riskScore
              /\ overallRisk([f EXCEPT !.temperature = @ - d]) <= pmOut.riskScore
              /\ overallRisk([f EXCEPT !.efficiency = @ - d]) >= pmOut.riskScore

\* an assessment in which every component is on its sloped part
C20_Witness ==
    /\ Assessed
    /\ pmOut.factors.temperature > 75
    /\ pmOut.factors.efficiency < 85
    /\ pmOut.factors.runTime < DAYS_30
    /\ pmOut.riskScore > 0

\* C21: the reported daysToMaintenance equals max(0, 14 - 14 * overallRisk),
\* lies between 0 and 14, and predictedMaintenanceDate is the evaluation time
\* plus exactly the reported number of days.
C21_DaysAndDate ==
    Assessed =>
        /\ pmOut.daysToMaintenance * OverallUnit
              = Max(0, 14 * OverallUnit - 14 * pmOut.riskScore)
        /\ pmOut.daysToMaintenance \in 0..14
        /\ pmOut.predictedMaintenanceDate
              = (pmIn.now + pmOut.daysToMaintenance) * OverallUnit

\* an assessment step: a call was made with new arguments or a new result
AssessmentStep == pmIn' # pmIn \/ pmOut' # pmOut

\* C22: calculatePredictiveMaintenance has no side effects on the store: for a
\* known machine, for an unknown id and for an inherited property name, no
\* field of a machine or of a production line differs after the call; for an
\* id that names no property at all the result is null.
C22_AssessmentIsRead ==
    /\ [](pmIn # NoAssessment /\ pmIn.machineId \notin MachineIds \cup InheritedKeys
             => pmOut = Null)
    /\ [][AssessmentStep => machines' = machines /\ productionLines' = productionLines]_vars

\* a known machine was assessed after telemetry had changed the store
C22_Witness ==
    /\ Assessed
    /\ lastData # NoData
    /\ pmIn.machineId = "MACHINE_C1"

\* C26: calculatePredictiveMaintenance never returns MEDIUM: the days it hands
\* to getMaintenanceRecommendation are 14 - 14 * risk, which exceed 2 whenever
\* the risk is at most 0.6.
C26_NeverMedium ==
    pmOut.t \in {"object", "NaN"} =>
        /\ pmOut.recommendation.priority \in {"CRITICAL", "HIGH", "LOW"}
        /\ pmOut.t = "object" /\ 10 * pmOut.riskScore <= 6 * OverallUnit =>
              14 * OverallUnit - 14 * pmOut.riskScore > 2 * OverallUnit

\* an assessment whose risk is at most 0.6 and whose result is LOW
C26_Witness ==
    /\ Assessed
    /\ 10 * pmOut.riskScore <= 6 * OverallUnit
    /\ 10 * pmOut.riskScore > 5 * OverallUnit
    /\ pmOut.recommendation.priority = "LOW"

----------------------------------------------------------------------------
(* Selection, and the store under telemetry of any payload *)

\* this.selectedMachine after selectMachine(machineId), and whether the call
\* threw: an entry without a body throws at line 869 before the assignment, or
\* at line 878 after it
selectMachine(ms, selected, machineId) ==
    LET previous == IF Truthy(selected) THEN Lookup(ms, ToKey(selected))
                    ELSE Undefined
        machine == Lookup(ms, ToKey(machineId))
    IN  IF Truthy(previous) /\ previous.kind = "inherited"
        THEN [selectedMachine |-> selected, threw |-> TRUE]
        ELSE [selectedMachine |-> machineId,
              threw |-> Truthy(machine) /\ machine.kind = "inherited"]

\* the machine list's items, line 843: one per machine of the store
SelectIds == {"MACHINE_C1", "MACHINE_A1"}

SelectMachine ==
    /\ \E machineId \in SelectIds :
          selectedMachine' =
              selectMachine(machines, selectedMachine, S(machineId)).selectedMachine
    /\ UNCHANGED <<pmIn, pmOut, recIn, recOut, storeVars, calcVars, chanVars, swVars>>

\* status payloads: a status of the layout, one it does not have, none at all
UiStatuses == {S("offline"), S("overheated"), Undefined}

UiEvents ==
    {Event(S("machineStatus"), S(id), status, Undefined, Undefined, Undefined,
           Undefined) : id \in {"MACHINE_C1", "MACHINE_X9"}, status \in UiStatuses}
    \cup {AlertEvent("overheating")}

UiTelemetry ==
    /\ \E data \in UiEvents : Apply(data)
    /\ UNCHANGED <<calcVars, chanVars, swVars, pmVars>>

InitUi == InitPmSpec

NextUi == UiTelemetry \/ SelectMachine \/ CalculatePredictiveMaintenance

UiSpec == InitUi /\ [][NextUi]_vars

\* C23 In every reachable state every machine's status is one of running,
\* maintenance, offline, stopped and every line's status is one of running,
\* warning, stopped, whatever the telemetry events carried.
C23_StatusDomains ==
    /\ \A id \in DOMAIN machines :
          machines[id].status \in {S(s) : s \in EventStatuses}
    /\ \A l \in DOMAIN productionLines :
          productionLines[l].status \in {S("running"), S("warning"), S("stopped")}

LineOf(id) == {l \in DOMAIN productionLines : Includes(productionLines[l].machines, id)}

\* C24 Every machine of the store is a member of exactly one production line,
\* the lines are those of the layout, and each line's member list is the list
\* of ids it was constructed with, in that order, after any telemetry event,
\* selection or risk assessment.
C24_MembershipFixed ==
    /\ DOMAIN productionLines = LineIds
    /\ \A l \in LineIds :
          productionLines[l].machines =
              [i \in 1..Len(LineConfigs[l]) |-> LineConfigs[l][i].id]
    /\ \A id \in DOMAIN machines : Cardinality(LineOf(id)) = 1

C24_Witness ==
    /\ machines["MACHINE_C1"].status = S("offline")
    /\ selectedMachine = S("MACHINE_C1")
    /\ Assessed
    /\ alerts # <<>>

\* C30 A production line constructed from configured statuses that aggregate
\* to 'stopped' (one of them is offline or maintenance) stores every member as
\* 'stopped'; any other line stores every member with its configured status.
C30_MembersOfStoppedLine ==
    lineOut # NoResult =>
        LET stops == \E i \in 1..Len(calcIn) :
                        calcIn[i].status \in {S("offline"), S("maintenance")}
        IN  /\ Len(lineOut.created) = Len(calcIn)
            /\ \A i \in 1..Len(calcIn) :
                  lineOut.created[i].status =
                      IF stops THEN S("stopped") ELSE calcIn[i].status

C30_Witness ==
    /\ lineOut # NoResult
    /\ Len(calcIn) = 3
    /\ calcIn[1].status = S("running")
    /\ calcIn[2].status = S("maintenance")
    /\ calcIn[3].status = S("stopped")
    /\ lineOut.line.status = S("stopped")
    /\ lineOut.created[1].status = S("stopped")

----------------------------------------------------------------------------
(* Alerts and sockets of the channel *)

\* the messages of the 'alert' events among decoded values, in order
RECURSIVE AlertMessages(_)
AlertMessages(seq) ==
    IF seq = <<>> THEN <<>>
    ELSE LET data == seq[Len(seq)]
             rest == AlertMessages(SubSeq(seq, 1, Len(seq) - 1))
         IN  IF data.t = "object" /\ data.type = S("alert")
             THEN Append(rest, data.message) ELSE rest

\* C25 The alerts surfaced are exactly the messages of the decoded events of
\* type 'alert', one each and in order; a step that surfaces an alert is the
\* delivery of such an event, so machineStatus events, other event types,
\* unparsable frames, socket errors and socket closes surface none.
C25_AlertPerAlertEvent ==
    /\ [](alerts = AlertMessages(delivered))
    /\ [][alerts' # alerts =>
            /\ lastEvent' = "message"
            /\ delivered' = Append(delivered, received'[Len(received')].value)
            /\ received'[Len(received')].value.type = S("alert")
            /\ alerts' = Append(alerts, received'[Len(received')].value.message)]_vars

C25_Witness ==
    /\ alerts = <<S("overheat")>>
    /\ Len(delivered) = 3
    /\ Len(received) = 3
    /\ delivered[2].t = "object" /\ delivered[2].machineId = S("MACHINE_X9")
    /\ delivered[3].t = "object" /\ delivered[3].machineId = S("MACHINE_C1")
    /\ lastEvent \in {"close", "closeAfterError"}

\* C27 The sockets that have not closed and the pending reconnect timers are
\* together at most one; a socket is created only when a reconnect timer
\* fires, and a timer only by the close of the current socket.
C27_OneSocketOrTimer ==
    /\ [](Len(sockets) + Len(timers) <= 1)
    /\ [][/\ Len(sockets') > Len(sockets) => lastEvent' = "timer" /\ Len(timers') < Len(timers)
          /\ Len(timers') > Len(timers) =>
                /\ lastEvent' \in {"close", "closeAfterError"}
                /\ socket = "live" /\ socket' = "closed"]_vars

C27_Witness ==
    /\ Len(timers) = 1
    /\ sockets = <<>>
    /\ lastEvent = "close"
    /\ received # <<>>

\* C28 Once the activation of the worker of CACHE_NAME has completed, every
\* cache of CacheStorage is named CACHE_NAME: a write chain that a fetch
\* handler of the prior worker left behind neither re-creates the prior cache
\* nor stores an entry in it.
C28_NoOtherEpochAgain ==
    swNew = "activated" =>
        \A i \in 1..Len(swCaches) :
            /\ swCaches[i].name = CACHE_NAME
            /\ \A u \in DOMAIN swCaches[i].entries :
                  swCaches[i].entries[u].via = "put" => swCaches[i].name = swActive

\* a request had an entry when its fetch event arrived
AnsweredFromCache(r) ==
    r \notin swReqs' =>
        /\ swLast'.kind = "cache"
        /\ swLast'.request = r.request
        /\ swWrites' = swWrites

\* C29 A request that has an entry when its fetch event arrives is answered
\* from the cache, with no network request and no write; no put replaces an
\* entry that its cache holds; and every write chain belongs to a handler
\* whose lookup missed, so it stores a response the network gave for a
\* request that had no entry when the event arrived.
C29_CacheFirstNoRefresh ==
    /\ [](/\ \A r \in swReqs : r.cached => r.phase = "match"
          /\ ~swOverwritten)
    /\ [][/\ \A r \in swReqs : r.cached => AnsweredFromCache(r)
          /\ \A w \in swWrites' \ swWrites :
                w.phase = "open" =>
                    \E r \in swReqs : /\ ~r.cached /\ r.phase = "fetch"
                                      /\ r.request.url = w.url
                                      /\ r \notin swReqs']_vars

\* a cache that CacheStorage still holds has every entry it had, and an entry
\* that addAll stored is the one it stored
EntriesKept ==
    \A i \in 1..Len(swCaches) : \A j \in 1..Len(swCaches') :
        swCaches[i].id = swCaches'[j].id =>
            \A u \in DOMAIN swCaches[i].entries :
                /\ u \in DOMAIN swCaches'[j].entries
                /\ swCaches'[j].entries[u].response = swCaches[i].entries[u].response

\* the step is a cache.put that lands on an entry of the same request
PutOnEntry ==
    \E w \in swWrites \ swWrites' :
        w.phase = "put" /\ HoldsEntry(swCaches, w.id, w.url)

\* C29, as the handler has it: a request that has an entry when its fetch
\* event arrives is answered from the cache with no network request and no
\* write; every write chain is started by a handler whose lookup missed; an
\* entry stays retrievable with the response it has for as long as its cache
\* exists; and the only replacement of an entry is by the put of such a
\* chain, when two handlers missed on one request before either had stored.
C29_CacheFirstMissWrites ==
    /\ [](\A r \in swReqs : r.cached => r.phase = "match")
    /\ [][/\ \A r \in swReqs : r.cached => AnsweredFromCache(r)
          /\ \A w \in swWrites' \ swWrites :
                w.phase = "open" =>
                    \E r \in swReqs : /\ ~r.cached /\ r.phase = "fetch"
                                      /\ r.request.url = w.url
                                      /\ r \notin swReqs'
          /\ EntriesKept
          /\ swOverwritten' # swOverwritten => PutOnEntry]_vars

\* an entry stored by a put was replaced by a second put, and the request
\* was then answered from the cache
C29_Witness ==
    /\ swOverwritten
    /\ swLast.kind = "cache"
    /\ swLast.request.url = Own("/report")
    /\ cachesMatch(swCaches, Own("/report")).t = "hit"

====
